---- MODULE Spec2Model ----
(***************************************************************************)
(* CamHome2 recording supervisor (src/server.js, second revision of the    *)
(* file, lines 392-907): the registry `recorders`, the ffmpeg capture      *)
(* processes it owns, the restart timers armed by the close handler, the   *)
(* camera and configuration stores, and the HTTP handlers that drive them. *)
(*                                                                         *)
(* Node runs every callback to completion on one thread, so each action    *)
(* below is one whole callback: an HTTP handler, a child-process event     *)
(* handler or a timer callback.  The JSON store (jsonDb) is taken to read  *)
(* and write reliably; the faults modelled are the ones startRecording     *)
(* handles itself (folder creation, spawn).  Time is not a variable: a     *)
(* timer may fire at any moment after it was armed, and how long a process *)
(* has run is given when it closes.                                        *)
(*                                                                         *)
(* Strings are sequences of one-character strings, except that the scheme  *)
(* prefix "rtsp://" of an address is kept as one element.                  *)
(***************************************************************************)
EXTENDS Integers, Sequences, FiniteSets, Bags, TLC

VARIABLES
    ffmpegPresent,       \* the host: does `ffmpeg -version` succeed
    IS_FFMPEG_INSTALLED, \* the global flag set by the `ffmpeg -version` callback
    ffmpegCheck,         \* "pending" | "done": has that callback run
    boot,                \* "init" | "settling" | "up": app.listen and the settle timer
    cameras,             \* cameras.json: a sequence of camera records
    recordingPath,       \* config.json's recordingPath ("" when cleared)
    recorders,           \* the registry: camera id -> NoEntry or [process, startTime]
    orphans,             \* bag of spawned processes no registry entry points to
    timers,              \* bag of pending restart timers [cam, delay]
    last,                \* history: the callback that ran last, and what it did
    proxy,               \* the GET /api/proxy or /api/rtsp-snapshot request in hand
    call,                \* a call of sanitize or getStreamUrlWithAuth and its result
    thumbs,              \* per segment: its files on disk and the thumbnail requests
    clients              \* per client operation: how far it is, and the list it read

vars == <<ffmpegPresent, IS_FFMPEG_INSTALLED, ffmpegCheck, boot, cameras,
          recordingPath, recorders, orphans, timers, last, proxy, call, thumbs,
          clients>>

\* the recording supervisor's part of the state
supervisorVars == <<boot, cameras, recordingPath, recorders, orphans, timers, last>>

-----------------------------------------------------------------------------
(* Bounds of the model *)

\* capture processes and restart timers in existence at one time; a request
\* that would take their number beyond it is left out
MaxProcs == 2

\* Date.now() in ms at the start of a run: any clock set after 1970.  The
\* model keeps no running clock; a close handler reads EpochNow plus the time
\* its process has run
EpochNow == 1000000000

-----------------------------------------------------------------------------
(* Program constants *)

\* close handler: "ran for more than 10 seconds"
UPTIME_FLOOR == 10000

\* close handler: setTimeout(..., 15000)
RESTART_DELAY == 15000

\* app.listen callback: setTimeout(initializeRecorder, 2000)
SETTLE_DELAY == 2000

-----------------------------------------------------------------------------
(* Strings *)

Lower(c) ==
    CASE c = "F" -> "f"
      [] c = "G" -> "g"
      [] OTHER -> c

IsAlnum(c) == Lower(c) \in {"f", "g", "1", "2"}

\* a variant without toLowerCase()
sanitizeKeepCase(str) ==
    [i \in 1..Len(str) |-> IF IsAlnum(str[i]) THEN str[i] ELSE "_"]

\* str.replace(/[^a-z0-9]/gi, '_').toLowerCase()
sanitize(str) ==
    [i \in 1..Len(str) |-> IF IsAlnum(str[i]) THEN Lower(str[i]) ELSE "_"]

Includes(str, c) == \E i \in 1..Len(str) : str[i] = c

StartsWithRtsp(url) == Len(url) >= 1 /\ url[1] = "rtsp://"

Null == <<"null">>

\* server.js getStreamUrlWithAuth
getStreamUrlWithAuth(camera) ==
    LET url == camera.streamUrl IN
    IF url = << >> THEN Null
    ELSE IF /\ camera.username # << >>
            /\ camera.password # << >>
            /\ ~Includes(url, "@")
            /\ StartsWithRtsp(url)
         THEN <<"rtsp://">> \o camera.username \o <<":">> \o camera.password
                  \o <<"@">> \o Tail(url)
         ELSE url

-----------------------------------------------------------------------------
(* Inputs: camera records and destination roots *)

CamIds == {"c1", "c2"}

CamOrder == <<"c1", "c2">>

NameOf(id) == IF id = "c1" THEN <<"F", " ", "1">> ELSE <<"g", "2">>

\* a display name a client may also give to camera c2
OtherName == <<"f", "_", "1">>

UrlA == <<"rtsp://", "a">>
UrlB == <<"rtsp://", "b">>

Cam(id, status, url, user, pass) ==
    [id |-> id, name |-> NameOf(id), streamUrl |-> url,
     username |-> user, password |-> pass, status |-> status]

\* the records a client may post for one camera
CameraPool(id) ==
    IF id = "c1"
    THEN { Cam(id, "ONLINE", UrlA, << >>, << >>),
           Cam(id, "ONLINE", UrlB, <<"u">>, <<"p">>),
           Cam(id, "OFFLINE", UrlA, << >>, << >>) }
    ELSE { Cam(id, "RECORDING", UrlA, << >>, << >>),
           [Cam(id, "RECORDING", UrlA, << >>, << >>) EXCEPT !.name = OtherName] }

Roots == {"/r1", "/r2"}

RECURSIVE ListsFrom(_)
\* the camera lists over the ids of `ids` (a sequence), in that order
ListsFrom(ids) ==
    IF ids = << >> THEN { << >> }
    ELSE LET rest == ListsFrom(Tail(ids)) IN
         rest \cup { <<c>> \o r : c \in CameraPool(Head(ids)), r \in rest }

CameraLists == ListsFrom(CamOrder)

IdsOf(list) == { list[i].id : i \in 1..Len(list) }

\* Array.prototype.find(c => c.id === id); NoCam stands for undefined
NoCam == [id |-> "none"]

Find(list, id) ==
    IF \E i \in 1..Len(list) : list[i].id = id
    THEN list[CHOOSE i \in 1..Len(list) :
                 /\ list[i].id = id
                 /\ \A j \in 1..(i - 1) : list[j].id # id]
    ELSE NoCam

-----------------------------------------------------------------------------
(* Processes, registry entries, timers *)

NoEntry == [process |-> "none"]

\* a process handle returned by spawn('ffmpeg', args): the camera id its
\* handlers' closures hold, the address and folder it was spawned with,
\* st "running", "failed" after a spawn that failed asynchronously, or
\* "exited" once the process has died and its 'close' is still to come
Proc(camera, url, dir, st) ==
    [cam |-> camera.id, url |-> url, dir |-> dir, st |-> st, signalled |-> FALSE]

ExitCodes == {0, 1}

\* how long a process has run when it closes, ms
Uptimes == {UPTIME_FLOOR - 1, UPTIME_FLOOR, UPTIME_FLOOR + 1}

FaultKinds == {"mkdir", "spawnThrow", "spawnError"}

NoFault == [cam |-> "none", kind |-> "none"]

\* the camera whose start a handler's fault hits
FaultyCams == {"c1"}

FaultInputs == {NoFault} \cup [cam : FaultyCams, kind : FaultKinds]

FaultFor(f, id) == IF f.cam = id THEN f.kind ELSE "none"

\* the faults that can hit a handler that, with none, does what log says:
\* only a start that gets as far as its folder can fail
FaultsFor(log) ==
    { f \in FaultInputs : f = NoFault \/ <<"mkdir", f.cam>> \in log }

One(x) == SetToBag({x})

Alive(p) == p.st = "running"

\* the supervisor's state as one record, threaded through a handler; log
\* holds what the handler did: <<"start", id>> and <<"stop", id>> for a call
\* of startRecording and stopRecording, <<"mkdir", id>> for a folder found or
\* created, <<"spawn", id>> for a process spawned, and the two logged errors
Sup == [rec |-> recorders, orph |-> orphans, tm |-> timers, log |-> {}]

Logged(S, what, id) == [S EXCEPT !.log = @ \cup {<<what, id>>}]

-----------------------------------------------------------------------------
(* server.js stopRecording *)

\* process.kill('SIGTERM'): delivered to a running process; on a handle
\* without a process it returns false, which the caller ignores
Kill(p) == IF p.st = "running" THEN [p EXCEPT !.signalled = TRUE] ELSE p

\* a variant that gives up when the signal cannot be delivered
stopRecordingUnlessDead(S, cameraId) ==
    LET S0 == Logged(S, "stop", cameraId) IN
    IF S0.rec[cameraId] = NoEntry THEN S0
    ELSE IF ~Alive(S0.rec[cameraId].process) THEN S0
    ELSE [S0 EXCEPT !.orph = @ (+) One(Kill(S0.rec[cameraId].process)),
                    !.rec[cameraId] = NoEntry]

stopRecording(S, cameraId) ==
    LET S0 == Logged(S, "stop", cameraId) IN
    IF S0.rec[cameraId] = NoEntry THEN S0
    ELSE [S0 EXCEPT !.orph = @ (+) One(Kill(S0.rec[cameraId].process)),
                    !.rec[cameraId] = NoEntry]

-----------------------------------------------------------------------------
(* server.js startRecording *)

\* a variant that records a camera of any status
RecordableAlways(status) == TRUE

Recordable(status) == status = "ONLINE" \/ status = "RECORDING"

\* path.join(config.recordingPath, sanitize(camera.name))
CamFolder(path, camera) == <<path, sanitize(camera.name)>>

\* a variant that schedules another attempt when the folder cannot be made
SpawnAndRegisterRetry(S, camera, path, kind) ==
    LET dir == CamFolder(path, camera)
        url == getStreamUrlWithAuth(camera)
        st  == IF kind = "spawnError" THEN "failed" ELSE "running"
        S1  == Logged(S, "mkdir", camera.id)
    IN  IF kind = "mkdir"
        THEN [Logged(S, "mkdirFailed", camera.id) EXCEPT
                 !.tm = @ (+) One([cam |-> camera.id, delay |-> RESTART_DELAY])]
        ELSE IF kind = "spawnThrow" THEN Logged(S1, "spawnThrew", camera.id)
        ELSE [Logged(S1, "spawn", camera.id) EXCEPT
                 !.rec[camera.id] =
                     [process |-> Proc(camera, url, dir, st), startTime |-> EpochNow]]

\* the part after the guards: folder, spawn, registration
SpawnAndRegister(S, camera, path, kind) ==
    LET dir == CamFolder(path, camera)
        url == getStreamUrlWithAuth(camera)
        st  == IF kind = "spawnError" THEN "failed" ELSE "running"
        S1  == Logged(S, "mkdir", camera.id)
    IN  IF kind = "mkdir" THEN Logged(S, "mkdirFailed", camera.id)
        ELSE IF kind = "spawnThrow" THEN Logged(S1, "spawnThrew", camera.id)
        ELSE [Logged(S1, "spawn", camera.id) EXCEPT
                 !.rec[camera.id] =
                     [process |-> Proc(camera, url, dir, st), startTime |-> EpochNow]]

startRecording(S, camera, ffmpeg, path, kind) ==
    LET S0 == Logged(S, "start", camera.id) IN
    IF ~ffmpeg THEN S0
    ELSE IF path = "" THEN S0
    ELSE LET S1 == IF S0.rec[camera.id] # NoEntry
                   THEN stopRecording(S0, camera.id) ELSE S0
         IN  IF ~Recordable(camera.status) THEN S1
             ELSE IF getStreamUrlWithAuth(camera) = Null THEN S1
             ELSE SpawnAndRegister(S1, camera, path, kind)

\* a variant in which a failing start ends the iteration
RECURSIVE StartEachUntilFailure(_, _, _, _, _)
StartEachUntilFailure(S, cams, ffmpeg, path, f) ==
    IF cams = << >> THEN S
    ELSE LET S1 == startRecording(S, Head(cams), ffmpeg, path,
                                  FaultFor(f, Head(cams).id))
         IN  IF \/ <<"mkdirFailed", Head(cams).id>> \in S1.log
                \/ <<"spawnThrew", Head(cams).id>> \in S1.log
             THEN S1
             ELSE StartEachUntilFailure(S1, Tail(cams), ffmpeg, path, f)

RECURSIVE StartEach(_, _, _, _, _)
\* cams.forEach(cam => startRecording(cam))
StartEach(S, cams, ffmpeg, path, f) ==
    IF cams = << >> THEN S
    ELSE StartEach(startRecording(S, Head(cams), ffmpeg, path,
                                  FaultFor(f, Head(cams).id)),
                   Tail(cams), ffmpeg, path, f)

\* server.js initializeRecorder
initializeRecorder(S, ffmpeg, cams, path, f) ==
    IF ~ffmpeg THEN S ELSE StartEach(S, cams, ffmpeg, path, f)

-----------------------------------------------------------------------------
(* The close and error handlers registered by startRecording *)

\* recorders[camera.id]?.startTime || 0, read from registry R
StartTimeOf(R, id) == IF R[id] = NoEntry THEN 0 ELSE R[id].startTime

\* a variant that restarts only when both conditions hold
ShouldRestartBoth(code, wasRunningLongEnough) == code # 0 /\ wasRunningLongEnough

ShouldRestart(code, wasRunningLongEnough) == code # 0 \/ wasRunningLongEnough

\* a variant that empties the registry
DeleteEntryAll(S, p, own) == [S EXCEPT !.rec = [id \in CamIds |-> NoEntry]]

\* delete recorders[camera.id], by a handler of process p (own: the entry
\* points to p itself): the entry goes whichever process it points to, and
\* another process it pointed to lives on without an entry
DeleteEntry(S, p, own) ==
    IF own \/ S.rec[p.cam] = NoEntry THEN [S EXCEPT !.rec[p.cam] = NoEntry]
    ELSE [S EXCEPT !.orph = @ (+) One(S.rec[p.cam].process),
                   !.rec[p.cam] = NoEntry]

\* proc.on('close', code => ...) of process p, run when Date.now() is now
closeHandler(S, p, own, code, now) ==
    LET S1 == DeleteEntry(S, p, own)
        wasRunningLongEnough == (now - StartTimeOf(S1.rec, p.cam)) > UPTIME_FLOOR
    IN  IF ShouldRestart(code, wasRunningLongEnough)
        THEN [S1 EXCEPT !.tm = @ (+) One([cam |-> p.cam, delay |-> RESTART_DELAY])]
        ELSE S1

\* proc.on('error', err => ...) of process p
errorHandler(S, p, own) == DeleteEntry(S, p, own)

\* a variant that restarts from the record the handler's closure holds,
\* whatever is stored
CurrentCamStale(cams, id) ==
    IF Find(cams, id) = NoCam THEN Cam(id, "ONLINE", UrlA, << >>, << >>)
    ELSE Find(cams, id)

\* a variant whose lookup never finds the camera
CurrentCamNone(cams, id) == NoCam

\* the camera the restart timer restarts: the record stored now
CurrentCam(cams, id) == Find(cams, id)

-----------------------------------------------------------------------------
(* History: what the last callback was and did *)

Idle == [op |-> "idle", cam |-> "none", code |-> 0, uptime |-> 0, log |-> {}]

\* no spawn failure is waiting to be reported: Node reports it on the next
\* tick, before any other event is handled
Settled ==
    /\ \A id \in CamIds :
          recorders[id] # NoEntry => recorders[id].process.st # "failed"
    /\ \A p \in BagToSet(orphans) : p.st # "failed"

\* processes and timers in supervisor state S
Population(S) ==
    Cardinality({ id \in CamIds : S.rec[id] # NoEntry })
        + BagCardinality(S.orph) + BagCardinality(S.tm)

Commit(S, op, cam, code, uptime) ==
    /\ last' = [op |-> op, cam |-> cam, code |-> code, uptime |-> uptime,
                log |-> S.log]
    /\ recorders' = S.rec
    /\ orphans' = S.orph
    /\ timers' = S.tm

-----------------------------------------------------------------------------
(* The browser client (src/services/mockCameraService.ts): addCamera,      *)
(* updateCamera and deleteCamera each read the whole list with GET         *)
(* /api/cameras, change it, and write the whole list back with POST        *)
(* /api/cameras.  Two operations are followed, one per camera.             *)

Ops == {"o1", "o2"}

\* the camera an operation concerns
CamOf(o) == IF o = "o1" THEN "c1" ELSE "c2"

ClientKinds == {"add", "update", "delete"}

NoOp == [pc |-> "idle", kind |-> "none", cam |-> NoCam, list |-> << >>]

NoClients == [o \in Ops |-> NoOp]

\* list.findIndex(x => x.id === id), 0 for -1
FindIndex(list, id) ==
    IF \E i \in 1..Len(list) : list[i].id = id
    THEN CHOOSE i \in 1..Len(list) :
            /\ list[i].id = id
            /\ \A j \in 1..(i - 1) : list[j].id # id
    ELSE 0

RECURSIVE Without(_, _)
\* list.filter(x => x.id !== id)
Without(list, id) ==
    IF list = << >> THEN << >>
    ELSE IF Head(list).id = id THEN Without(Tail(list), id)
    ELSE <<Head(list)>> \o Without(Tail(list), id)

\* the body an operation posts, from the list it read
ClientList(op) ==
    CASE op.kind = "add" -> Append(op.list, op.cam)
      [] op.kind = "update" ->
            LET idx == FindIndex(op.list, op.cam.id) IN
            IF idx # 0 THEN [op.list EXCEPT ![idx] = op.cam] ELSE op.list
      [] OTHER -> Without(op.list, op.cam.id)

-----------------------------------------------------------------------------
(* The live frame gateway: GET /api/proxy and GET /api/rtsp-snapshot.     *)
(* One request is followed from its arrival to its response.              *)

\* an address as the handler sees it: parses says whether new URL(url) and
\* fetch accept it, creds lists the user:pass@ groups in front of its host,
\* one pair <<user, pass>> each ("" for a part that is absent)
Address(parses, creds) == [given |-> TRUE, parses |-> parses, creds |-> creds]

\* no url in the query
NoAddress == [given |-> FALSE, parses |-> FALSE, creds |-> << >>]

Addresses ==
    { Address(ok, c) : ok \in BOOLEAN,
                       c \in { << >>, << <<"a", "b">> >>, << <<"a", "">> >> } }

\* query parameters username and password ("" when absent); none of them
\* has a character that the URL setters would percent-encode
Usernames == {"", "u"}
Passwords == {"", "p"}

\* what the camera declares as content-type ("" when it declares none) and
\* the bodies it sends
ContentTypes == {"", "image/jpeg", "image/png"}
Bodies == {"frame1", "frame2"}

NoResponse == [status |-> 0, type |-> "", body |-> ""]

\* what has been received from the camera: the declared content-type once
\* the headers are in, the body once it has been read to its end
NoUpstream == [type |-> "", body |-> ""]

NoRequest ==
    [route |-> "none", stage |-> "idle", url |-> NoAddress, username |-> "",
     password |-> "", timer |-> "none", upstream |-> NoUpstream, spawns |-> 0,
     authUrl |-> NoAddress, res |-> NoResponse]

\* a variant that always overrides the credentials of the address
AuthUrlOverride(url, username, password) ==
    IF username # "" /\ password # ""
    THEN [url EXCEPT !.creds = << <<username, password>> >>]
    ELSE url

\* the address handed to ffmpeg by /api/proxy: new URL(url) with username
\* and password set where the address has none, or, when the address does
\* not parse, url.replace('://', `://${username}:${password}@`)
AuthUrl(url, username, password) ==
    IF username # "" /\ password # ""
    THEN IF url.parses
         THEN IF url.creds = << >>
              THEN [url EXCEPT !.creds = << <<username, password>> >>]
              ELSE [url EXCEPT !.creds =
                       << << IF @[1][1] = "" THEN username ELSE @[1][1],
                             IF @[1][2] = "" THEN password ELSE @[1][2] >> >>]
         ELSE [url EXCEPT !.creds = << <<username, password>> >> \o @]
    ELSE url

\* a variant that declares every frame a JPEG
DeclaredTypeJpeg(ctype) == "image/jpeg"

\* response.headers.get('content-type') || 'image/jpeg'
DeclaredType(ctype) == IF ctype = "" THEN "image/jpeg" ELSE ctype

\* tier 2 of /api/proxy, reached when the direct fetch has not delivered:
\* spawn ffmpeg on the address with credentials, or answer 502
Fallback(r) ==
    IF IS_FFMPEG_INSTALLED
    THEN [r EXCEPT !.stage = "ffmpeg",
                   !.spawns = @ + 1,
                   !.authUrl = AuthUrl(r.url, r.username, r.password),
                   !.res.type = "image/jpeg"]
    ELSE [r EXCEPT !.stage = "done",
                   !.res = [status |-> 502, type |-> "text/html",
                            body |-> "ffmpeg missing"]]

\* the request arrives at /api/proxy: without url the handler throws and its
\* outer catch answers 500; otherwise it arms the 3 s abort timer and fetches
ProxyRequest ==
    /\ proxy.stage \in {"idle", "done"}
    /\ \E url \in Addresses \cup {NoAddress}, u \in Usernames, p \in Passwords :
          LET r == [NoRequest EXCEPT !.route = "proxy", !.url = url,
                                     !.username = u, !.password = p]
          IN  proxy' = IF url = NoAddress
                       THEN [r EXCEPT !.stage = "done",
                                      !.res = [status |-> 500, type |-> "text/html",
                                               body |-> "URL missing"]]
                       ELSE [r EXCEPT !.stage = "fetch", !.timer = "armed"]
    /\ UNCHANGED <<clients, ffmpegPresent, IS_FFMPEG_INSTALLED, ffmpegCheck, call, thumbs>>
    /\ UNCHANGED supervisorVars

GatewayUnchanged ==
    /\ UNCHANGED <<clients, ffmpegPresent, IS_FFMPEG_INSTALLED, ffmpegCheck, call, thumbs>>
    /\ UNCHANGED supervisorVars

\* fetch resolves with the camera's status line and headers: the handler
\* clears the timer, then reads the body of a success response and falls
\* back on any other
FetchResponds ==
    /\ proxy.stage = "fetch"
    /\ proxy.url.parses
    /\ \E ok \in BOOLEAN, ctype \in ContentTypes :
          LET r == [proxy EXCEPT !.timer = "cleared", !.upstream.type = ctype] IN
          proxy' = IF ok THEN [r EXCEPT !.stage = "body"] ELSE Fallback(r)
    /\ GatewayUnchanged

\* fetch rejects (address not accepted, connection refused or reset): the
\* catch clears the timer and falls back
FetchThrows ==
    /\ proxy.stage = "fetch"
    /\ proxy' = Fallback([proxy EXCEPT !.timer = "cleared"])
    /\ GatewayUnchanged

\* the 3 s timer fires while fetch is pending: controller.abort() makes
\* fetch reject, and the catch falls back
AbortTimer ==
    /\ proxy.stage = "fetch"
    /\ proxy.url.parses
    /\ proxy.timer = "armed"
    /\ proxy' = Fallback([proxy EXCEPT !.timer = "fired"])
    /\ GatewayUnchanged

\* response.arrayBuffer() resolves: the bytes go to the caller
BodyArrives ==
    /\ proxy.stage = "body"
    /\ \E b \in Bodies :
          proxy' = [proxy EXCEPT
                       !.stage = "done",
                       !.upstream.body = b,
                       !.res = [status |-> 200,
                                type |-> DeclaredType(proxy.upstream.type),
                                body |-> b]]
    /\ GatewayUnchanged

\* response.arrayBuffer() rejects (the connection breaks in the body): the
\* same catch as for fetch falls back
BodyFails ==
    /\ proxy.stage = "body"
    /\ proxy' = Fallback(proxy)
    /\ GatewayUnchanged

\* the request arrives at /api/rtsp-snapshot: 503 without ffmpeg, 400
\* without url, otherwise ffmpeg is spawned on the address as given
SnapshotRequest ==
    /\ proxy.stage \in {"idle", "done"}
    /\ \E url \in Addresses \cup {NoAddress} :
          LET r == [NoRequest EXCEPT !.route = "snapshot", !.url = url] IN
          proxy' =
             IF ~IS_FFMPEG_INSTALLED
             THEN [r EXCEPT !.stage = "done",
                            !.res = [status |-> 503, type |-> "text/html",
                                     body |-> "FFMPEG Missing"]]
             ELSE IF url = NoAddress
             THEN [r EXCEPT !.stage = "done",
                            !.res = [status |-> 400, type |-> "text/html",
                                     body |-> "RTSP URL missing"]]
             ELSE [r EXCEPT !.stage = "ffmpeg", !.spawns = 1, !.authUrl = url,
                            !.res.type = "image/jpeg"]
    /\ GatewayUnchanged

\* ffmpeg writes a frame to its stdout, piped into the response, and exits
Tier2Frame ==
    /\ proxy.stage = "ffmpeg"
    /\ \E b \in Bodies :
          proxy' = [proxy EXCEPT !.stage = "done",
                                 !.res = [status |-> 200, type |-> "image/jpeg",
                                          body |-> b]]
    /\ GatewayUnchanged

\* ffmpeg gets no frame (camera unreachable, wrong credentials, -stimeout)
\* and exits having written nothing: its stdout ends, and the pipe ends the
\* response, whose status is still the default 200
Tier2NoFrame ==
    /\ proxy.stage = "ffmpeg"
    /\ proxy' = [proxy EXCEPT !.stage = "done",
                              !.res = [status |-> 200, type |-> "image/jpeg",
                                       body |-> ""]]
    /\ GatewayUnchanged

\* ffmpeg.on('error'): the spawn failed, no header has been sent yet
Tier2SpawnError ==
    /\ proxy.stage = "ffmpeg"
    /\ proxy' = [proxy EXCEPT !.stage = "done",
                              !.res = [status |-> 502, type |-> "text/html",
                                       body |-> "failed"]]
    /\ GatewayUnchanged

-----------------------------------------------------------------------------
(* Thumbnails: GET /api/playback/:cam/:file/thumb *)

\* thumbnail requests taken for one segment
MaxThumbRequests == 3

\* the segments requests name, as camera folder and file
Segments == {"s1", "s2"}

\* per segment: video, the segment file exists; cached, its sidecar .jpg
\* exists; running, the extraction runs under way; made, the runs that have
\* written the sidecar; requests, the requests taken; served, how the last
\* response was produced
NoThumb ==
    [video |-> FALSE, cached |-> FALSE, running |-> 0, made |-> 0,
     requests |-> 0, served |-> "none"]

NoThumbs == [s \in Segments |-> NoThumb]

\* the handler up to its response or to the call of exec
ThumbRequest ==
    /\ \E s \in Segments :
          /\ thumbs[s].requests < MaxThumbRequests
          /\ LET t == [thumbs[s] EXCEPT !.requests = @ + 1] IN
             thumbs' = [thumbs EXCEPT ![s] =
                IF t.cached THEN [t EXCEPT !.served = "cache"]
                ELSE IF t.video /\ IS_FFMPEG_INSTALLED
                     THEN [t EXCEPT !.running = @ + 1]
                     ELSE [t EXCEPT !.served = "404"]]
    /\ UNCHANGED <<clients, proxy, call, ffmpegPresent, IS_FFMPEG_INSTALLED, ffmpegCheck>>
    /\ UNCHANGED supervisorVars

\* the callback of exec: ffmpeg has written the sidecar, or has failed
ThumbExecDone ==
    /\ \E s \in Segments, err \in BOOLEAN :
          /\ thumbs[s].running > 0
          /\ LET t == [thumbs[s] EXCEPT !.running = @ - 1] IN
             thumbs' = [thumbs EXCEPT ![s] =
                IF ~err
                THEN [t EXCEPT !.cached = TRUE, !.made = @ + 1, !.served = "fresh"]
                ELSE [t EXCEPT !.served = IF t.cached THEN "fresh" ELSE "500"]]
    /\ UNCHANGED <<clients, proxy, call, ffmpegPresent, IS_FFMPEG_INSTALLED, ffmpegCheck>>
    /\ UNCHANGED supervisorVars

-----------------------------------------------------------------------------
(* The two pure functions, applied to inputs of bounded length *)

\* the longest display name
MaxNameLen == 3

\* characters of display names: letters in both cases, a digit, a blank,
\* an underscore, punctuation, a letter outside ASCII
NameChars == {"F", "f", "1", " ", "_", "!", "e'"}

RECURSIVE StringsUpTo(_, _)
StringsUpTo(chars, n) ==
    IF n = 0 THEN { << >> }
    ELSE LET shorter == StringsUpTo(chars, n - 1) IN
         shorter \cup { Append(str, c) : str \in shorter, c \in chars }

Names == StringsUpTo(NameChars, MaxNameLen)

\* addresses given to the resolver: none, rtsp without and with user:pass@,
\* another scheme, rtsp with an @ in its path only
ResolverUrls ==
    { << >>,
      <<"rtsp://", "h">>,
      <<"rtsp://", "a", ":", "b", "@", "h">>,
      <<"http://", "h">>,
      <<"rtsp://", "h", "/", "@">> }

ResolverCams ==
    { [Cam("c1", "ONLINE", url, user, pass) EXCEPT !.name = << >>] :
         url \in ResolverUrls, user \in {<< >>, <<"u">>}, pass \in {<< >>, <<"p">>} }

NoCall ==
    [fn |-> "none", name |-> << >>, token |-> << >>, playToken |-> << >>,
     camera |-> Cam("c1", "ONLINE", << >>, << >>, << >>), url |-> << >>]

\* the folder GET /api/playback/:cam/:file looks in
PlaybackFolder(path, cam) == <<path, sanitize(cam)>>

\* startRecording derives the folder of a camera named call.name
SanitizeForRecording ==
    /\ call.fn \in {"name", "playback"}
    /\ call' = [call EXCEPT !.fn = "sanitize",
                            !.token = CamFolder("/r1", [name |-> call.name])[2]]
    /\ UNCHANGED <<clients, proxy, thumbs, ffmpegPresent, IS_FFMPEG_INSTALLED, ffmpegCheck>>
    /\ UNCHANGED supervisorVars

\* a playback request names the camera call.name
SanitizeForPlayback ==
    /\ call.fn \in {"name", "sanitize"}
    /\ call' = [call EXCEPT !.fn = "playback",
                            !.playToken = PlaybackFolder("/r1", call.name)[2]]
    /\ UNCHANGED <<clients, proxy, thumbs, ffmpegPresent, IS_FFMPEG_INSTALLED, ffmpegCheck>>
    /\ UNCHANGED supervisorVars

\* the token is given as a name in its turn
SanitizeAgain ==
    /\ call.fn = "sanitize"
    /\ call.token # call.name
    /\ call' = [call EXCEPT !.fn = "name", !.name = call.token,
                            !.token = << >>, !.playToken = << >>]
    /\ UNCHANGED <<clients, proxy, thumbs, ffmpegPresent, IS_FFMPEG_INSTALLED, ffmpegCheck>>
    /\ UNCHANGED supervisorVars

\* getStreamUrlWithAuth(call.camera)
Resolve ==
    /\ call.fn = "camera"
    /\ call' = [call EXCEPT !.fn = "resolve",
                            !.url = getStreamUrlWithAuth(call.camera)]
    /\ UNCHANGED <<clients, proxy, thumbs, ffmpegPresent, IS_FFMPEG_INSTALLED, ffmpegCheck>>
    /\ UNCHANGED supervisorVars

\* the resolved address is stored as the camera's address
ResolveAgain ==
    /\ call.fn = "resolve"
    /\ call.url # Null
    /\ call.url # call.camera.streamUrl
    /\ call' = [call EXCEPT !.fn = "camera", !.camera.streamUrl = call.url,
                            !.url = << >>]
    /\ UNCHANGED <<clients, proxy, thumbs, ffmpegPresent, IS_FFMPEG_INSTALLED, ffmpegCheck>>
    /\ UNCHANGED supervisorVars

PureInit ==
    /\ ffmpegPresent = TRUE
    /\ IS_FFMPEG_INSTALLED = FALSE
    /\ ffmpegCheck = "pending"
    /\ boot = "init"
    /\ cameras = << >>
    /\ recordingPath = ""
    /\ recorders = [id \in CamIds |-> NoEntry]
    /\ orphans = EmptyBag
    /\ timers = EmptyBag
    /\ last = Idle
    /\ proxy = NoRequest
    /\ thumbs = NoThumbs
    /\ clients = NoClients
    /\ \/ \E n \in Names : call = [NoCall EXCEPT !.fn = "name", !.name = n]
       \/ \E c \in ResolverCams : call = [NoCall EXCEPT !.fn = "camera", !.camera = c]

PureNext ==
    \/ SanitizeForRecording
    \/ SanitizeForPlayback
    \/ SanitizeAgain
    \/ Resolve
    \/ ResolveAgain

PureSpec == PureInit /\ [][PureNext]_vars

-----------------------------------------------------------------------------
(* Initial state: the module has been loaded, nothing has run yet *)

Init ==
    /\ ffmpegPresent \in BOOLEAN
    /\ IS_FFMPEG_INSTALLED = FALSE
    /\ ffmpegCheck = "pending"
    /\ boot = "init"
    /\ cameras \in CameraLists
    /\ recordingPath \in {"/r1", ""}
    /\ recorders = [id \in CamIds |-> NoEntry]
    /\ orphans = EmptyBag
    /\ timers = EmptyBag
    /\ last = Idle
    /\ proxy = NoRequest
    /\ call = NoCall
    /\ thumbs = NoThumbs
    /\ clients = NoClients

-----------------------------------------------------------------------------
(* Boot *)

\* exec('ffmpeg -version', err => ...)
FfmpegCheck ==
    /\ ffmpegCheck = "pending"
    /\ IS_FFMPEG_INSTALLED' = ffmpegPresent
    /\ ffmpegCheck' = "done"
    /\ last' = Idle
    /\ UNCHANGED <<clients, proxy, call, thumbs, ffmpegPresent, boot, cameras, recordingPath, recorders,
                   orphans, timers>>

\* app.listen(PORT, () => setTimeout(initializeRecorder, 2000))
Listen ==
    /\ boot = "init"
    /\ boot' = "settling"
    /\ last' = Idle
    /\ UNCHANGED <<clients, proxy, call, thumbs, ffmpegPresent, IS_FFMPEG_INSTALLED, ffmpegCheck, cameras,
                   recordingPath, recorders, orphans, timers>>

\* the settle timer fires: initializeRecorder()
BootSweep ==
    /\ boot = "settling"
    /\ Settled
    /\ \E f \in FaultsFor(initializeRecorder(Sup, IS_FFMPEG_INSTALLED, cameras,
                                              recordingPath, NoFault).log) :
          \E S \in { initializeRecorder(Sup, IS_FFMPEG_INSTALLED, cameras,
                                        recordingPath, f) } :
             /\ Population(S) <= MaxProcs
             /\ Commit(S, "sweep", "none", 0, 0)
    /\ boot' = "up"
    /\ UNCHANGED <<clients, proxy, call, thumbs, ffmpegPresent, IS_FFMPEG_INSTALLED, ffmpegCheck, cameras,
                   recordingPath>>

-----------------------------------------------------------------------------
(* HTTP handlers.  Requests are taken once the recorder has been           *)
(* initialised: a request in the 2 s between listen and the sweep is left  *)
(* out of the model.                                                       *)

\* a variant that compares the address only
ChangedUrlOnly(oldCams, newCam) ==
    LET oldCam == Find(oldCams, newCam.id) IN
    \/ oldCam = NoCam
    \/ oldCam.streamUrl # newCam.streamUrl

Changed(oldCams, newCam) ==
    LET oldCam == Find(oldCams, newCam.id) IN
    \/ oldCam = NoCam
    \/ oldCam.streamUrl # newCam.streamUrl
    \/ newCam.status # oldCam.status

RECURSIVE StartChanged(_, _, _, _, _, _)
\* newCams.forEach(newCam => { if (changed) startRecording(newCam) })
StartChanged(S, newCams, oldCams, ffmpeg, path, f) ==
    IF newCams = << >> THEN S
    ELSE LET newCam == Head(newCams)
             S1 == IF Changed(oldCams, newCam)
                   THEN startRecording(S, newCam, ffmpeg, path,
                                       FaultFor(f, newCam.id))
                   ELSE S
         IN  StartChanged(S1, Tail(newCams), oldCams, ffmpeg, path, f)

RECURSIVE StopRemoved(_, _, _)
\* oldCams.forEach(oldCam => { if (!newCams.find(...)) stopRecording(oldCam.id) })
StopRemoved(S, oldCams, newCams) ==
    IF oldCams = << >> THEN S
    ELSE LET S1 == IF Find(newCams, Head(oldCams).id) = NoCam
                   THEN stopRecording(S, Head(oldCams).id) ELSE S
         IN  StopRemoved(S1, Tail(oldCams), newCams)

\* the handler of app.post('/api/cameras') for the body newCams; op and cam
\* say in `last` who sent it
PostCamerasOf(newCams, op, cam) ==
    /\ boot = "up"
    /\ Settled
    /\ \E f \in FaultsFor(StartChanged(Sup, newCams, cameras, IS_FFMPEG_INSTALLED,
                                       recordingPath, NoFault).log) :
          \E S \in { StopRemoved(StartChanged(Sup, newCams, cameras,
                                              IS_FFMPEG_INSTALLED, recordingPath, f),
                                 cameras, newCams) } :
             /\ Population(S) <= MaxProcs
             /\ Commit(S, op, cam, 0, 0)
             /\ cameras' = newCams

\* app.post('/api/cameras')
PostCameras ==
    /\ \E newCams \in CameraLists : PostCamerasOf(newCams, "upsert", "none")
    /\ UNCHANGED <<clients, proxy, call, thumbs, ffmpegPresent, IS_FFMPEG_INSTALLED, ffmpegCheck, boot,
                   recordingPath>>

\* an operation starts: `const list = await fetchCameras()`.  The user adds
\* a camera under a fresh id, and updates or deletes a camera that is listed
ClientFetchOf(o) ==
    /\ boot = "up"
    /\ clients[o].pc = "idle"
    /\ \E kind \in ClientKinds, c \in CameraPool(CamOf(o)) :
          /\ (kind = "add") = (CamOf(o) \notin IdsOf(cameras))
          /\ kind = "delete" => c = Find(cameras, CamOf(o))
          /\ clients' = [clients EXCEPT ![o] =
                 [pc |-> "read", kind |-> kind, cam |-> c, list |-> cameras]]
    /\ last' = Idle
    /\ UNCHANGED <<proxy, call, thumbs, ffmpegPresent, IS_FFMPEG_INSTALLED,
                   ffmpegCheck, boot, cameras, recordingPath, recorders,
                   orphans, timers>>

ClientFetch == \E o \in Ops : ClientFetchOf(o)

\* the operation posts its list and the server handles it
ClientPostOf(o) ==
    /\ clients[o].pc = "read"
    /\ PostCamerasOf(ClientList(clients[o]), "clientPost", CamOf(o))
    /\ clients' = [clients EXCEPT ![o].pc = "done"]
    /\ UNCHANGED <<proxy, call, thumbs, ffmpegPresent, IS_FFMPEG_INSTALLED,
                   ffmpegCheck, boot, recordingPath>>

ClientPost == \E o \in Ops : ClientPostOf(o)

\* app.post('/api/config') with a recordingPath in the body
PostConfig ==
    /\ boot = "up"
    /\ Settled
    /\ \E path \in Roots \cup {""} :
       \E f \in FaultsFor(IF path # ""
                          THEN initializeRecorder(Sup, IS_FFMPEG_INSTALLED, cameras,
                                                  path, NoFault).log
                          ELSE {}) :
          \E S \in { IF path # ""
                     THEN initializeRecorder(Sup, IS_FFMPEG_INSTALLED, cameras, path, f)
                     ELSE Sup } :
             /\ Population(S) <= MaxProcs
             /\ Commit(S, "config", "none", 0, 0)
             /\ recordingPath' = path
    /\ UNCHANGED <<clients, proxy, call, thumbs, ffmpegPresent, IS_FFMPEG_INSTALLED, ffmpegCheck, boot, cameras>>

-----------------------------------------------------------------------------
(* Child-process events *)

\* a running ffmpeg has terminated (on its own, or after SIGTERM) with exit
\* code `code` after running `uptime` ms, and its close handler runs
ProcClose ==
    /\ Settled
    /\ \E code \in ExitCodes, uptime \in Uptimes :
          \/ \E id \in CamIds :
                /\ recorders[id] # NoEntry
                /\ \E S \in { closeHandler(Sup, recorders[id].process, TRUE, code,
                                           EpochNow + uptime) } :
                      Commit(S, "close", id, code, uptime)
          \/ \E p \in BagToSet(orphans) :
                \E S \in { closeHandler([Sup EXCEPT !.orph = @ (-) One(p)],
                                        p, FALSE, code, EpochNow + uptime) } :
                   Commit(S, "close", p.cam, code, uptime)
    /\ UNCHANGED <<clients, proxy, call, thumbs, ffmpegPresent, IS_FFMPEG_INSTALLED, ffmpegCheck, boot, cameras,
                   recordingPath>>

\* a spawn that failed asynchronously: the handle emits error, then close
\* with a non-zero code
ProcSpawnError ==
    /\ \E code \in ExitCodes \ {0} :
          \/ \E id \in CamIds :
                /\ recorders[id] # NoEntry
                /\ recorders[id].process.st = "failed"
                /\ LET p == recorders[id].process IN
                   Commit(closeHandler(errorHandler(Sup, p, TRUE), p, FALSE,
                                       code, EpochNow),
                          "error", p.cam, code, 0)
          \/ \E p \in BagToSet(orphans) :
                /\ p.st = "failed"
                /\ Commit(closeHandler(
                              errorHandler([Sup EXCEPT !.orph = @ (-) One(p)],
                                           p, FALSE),
                              p, FALSE, code, EpochNow),
                          "error", p.cam, code, 0)
    /\ UNCHANGED <<clients, proxy, call, thumbs, ffmpegPresent, IS_FFMPEG_INSTALLED, ffmpegCheck, boot, cameras,
                   recordingPath>>

-----------------------------------------------------------------------------
(* Timers *)

\* a restart timer of camera id, armed by a close handler, fires
RestartTimerOf(id) ==
    /\ Settled
    /\ \E t \in { x \in BagToSet(timers) : x.cam = id },
          kind \in FaultKinds \cup {"none"} :
          \E S \in { LET S0 == [Sup EXCEPT !.tm = @ (-) One(t)]
                         currentCam == CurrentCam(cameras, t.cam)
                     IN  IF currentCam # NoCam
                         THEN startRecording(S0, currentCam, IS_FFMPEG_INSTALLED,
                                             recordingPath, kind)
                         ELSE S0 } :
             Commit(S, "timer", t.cam, 0, 0)
    /\ UNCHANGED <<clients, proxy, call, thumbs, ffmpegPresent, IS_FFMPEG_INSTALLED, ffmpegCheck, boot, cameras,
                   recordingPath>>

RestartTimer == \E id \in CamIds : RestartTimerOf(id)

-----------------------------------------------------------------------------

Next ==
    \/ FfmpegCheck
    \/ Listen
    \/ BootSweep
    \/ PostCameras
    \/ PostConfig
    \/ ProcClose
    \/ ProcSpawnError
    \/ RestartTimer

Spec == Init /\ [][Next]_vars

\* the gateway alone, with no camera stored
GatewayInit ==
    /\ ffmpegPresent \in BOOLEAN
    /\ IS_FFMPEG_INSTALLED = FALSE
    /\ ffmpegCheck = "pending"
    /\ boot = "init"
    /\ cameras = << >>
    /\ recordingPath = ""
    /\ recorders = [id \in CamIds |-> NoEntry]
    /\ orphans = EmptyBag
    /\ timers = EmptyBag
    /\ last = Idle
    /\ proxy = NoRequest
    /\ call = NoCall
    /\ thumbs = NoThumbs
    /\ clients = NoClients

GatewayNext ==
    \/ FfmpegCheck
    \/ ProxyRequest
    \/ FetchResponds
    \/ FetchThrows
    \/ AbortTimer
    \/ BodyArrives
    \/ BodyFails
    \/ SnapshotRequest
    \/ Tier2Frame
    \/ Tier2NoFrame
    \/ Tier2SpawnError

GatewaySpec == GatewayInit /\ [][GatewayNext]_vars

\* the thumbnail route alone
ThumbInit ==
    /\ ffmpegPresent \in BOOLEAN
    /\ IS_FFMPEG_INSTALLED = FALSE
    /\ ffmpegCheck = "pending"
    /\ boot = "init"
    /\ cameras = << >>
    /\ recordingPath = "/r1"
    /\ recorders = [id \in CamIds |-> NoEntry]
    /\ orphans = EmptyBag
    /\ timers = EmptyBag
    /\ last = Idle
    /\ proxy = NoRequest
    /\ call = NoCall
    /\ thumbs \in [Segments -> { [NoThumb EXCEPT !.video = v] : v \in BOOLEAN }]
    /\ clients = NoClients

ThumbNext ==
    \/ FfmpegCheck
    \/ ThumbRequest
    \/ ThumbExecDone

ThumbSpec == ThumbInit /\ [][ThumbNext]_vars

\* the server after boot, with two client operations
ClientInit ==
    /\ ffmpegPresent = TRUE
    /\ IS_FFMPEG_INSTALLED = FALSE
    /\ ffmpegCheck = "pending"
    /\ boot = "init"
    /\ cameras \in CameraLists
    /\ recordingPath = "/r1"
    /\ recorders = [id \in CamIds |-> NoEntry]
    /\ orphans = EmptyBag
    /\ timers = EmptyBag
    /\ last = Idle
    /\ proxy = NoRequest
    /\ call = NoCall
    /\ thumbs = NoThumbs
    /\ clients = NoClients

ClientNext ==
    \/ FfmpegCheck
    \/ Listen
    \/ BootSweep
    \/ ProcSpawnError
    \/ ClientFetch
    \/ ClientPost

ClientSpec == ClientInit /\ [][ClientNext]_vars

-----------------------------------------------------------------------------
(* startRecording and stopRecording called on any registry: an entry may   *)
(* hold a process that has died and whose 'close' is not yet delivered,    *)
(* and the camera passed to a start may have no address                    *)

\* the records a caller may pass to startRecording
StartCams ==
    UNION { CameraPool(id) : id \in CamIds }
        \cup { Cam("c1", "ONLINE", << >>, << >>, << >>) }

\* the registry entries camera id may have when a call arrives
EntriesOf(id) ==
    {NoEntry} \cup
    { [process |-> Proc(c, getStreamUrlWithAuth(c), CamFolder("/r1", c), st),
       startTime |-> EpochNow] :
         c \in { x \in CameraPool(id) : Recordable(x.status) },
         st \in {"running", "exited"} }

HandlerInit ==
    /\ ffmpegPresent \in BOOLEAN
    /\ IS_FFMPEG_INSTALLED = ffmpegPresent
    /\ ffmpegCheck = "done"
    /\ boot = "up"
    /\ cameras = << >>
    /\ recordingPath \in {"/r1", ""}
    /\ recorders \in [CamIds -> UNION { EntriesOf(id) : id \in CamIds }]
    /\ \A id \in CamIds : recorders[id] \in EntriesOf(id)
    /\ orphans = EmptyBag
    /\ timers = EmptyBag
    /\ last = Idle
    /\ proxy = NoRequest
    /\ call = NoCall
    /\ thumbs = NoThumbs
    /\ clients = NoClients

\* stopRecording(cameraId)
StopCallOf(id) ==
    /\ Commit(stopRecording(Sup, id), "stopCall", id, 0, 0)
    /\ UNCHANGED <<clients, proxy, call, thumbs, ffmpegPresent, IS_FFMPEG_INSTALLED,
                   ffmpegCheck, boot, cameras, recordingPath>>

StopCall == \E id \in CamIds : StopCallOf(id)

\* startRecording(camera); kind is the fault, if any, that hits it
StartCallOf(camera, kind) ==
    /\ Population(Sup) <= MaxProcs
    /\ Commit(startRecording(Sup, camera, IS_FFMPEG_INSTALLED, recordingPath,
                             kind),
              "startCall", camera.id, 0, 0)
    /\ UNCHANGED <<clients, proxy, call, thumbs, ffmpegPresent, IS_FFMPEG_INSTALLED,
                   ffmpegCheck, boot, cameras, recordingPath>>

StartCall ==
    \E camera \in StartCams, kind \in {"none"} \cup FaultKinds :
        StartCallOf(camera, kind)

HandlerNext ==
    \/ StopCall
    \/ StartCall

HandlerSpec == HandlerInit /\ [][HandlerNext]_vars

\* Node's event loop runs every queued event, and every armed timer once it
\* has expired: events queued ahead of a timer delay it, they never cancel it
FairSpec ==
    /\ Spec
    /\ \A id \in CamIds : SF_vars(RestartTimerOf(id))
    /\ WF_vars(ProcSpawnError)

-----------------------------------------------------------------------------
(* Properties *)

RECURSIVE SumOver(_, _)
SumOver(B, S) ==
    IF S = {} THEN 0
    ELSE LET x == CHOOSE y \in S : TRUE IN B[x] + SumOver(B, S \ {x})

Registered(id) == recorders[id] # NoEntry

\* the processes of camera id that are alive and were never sent SIGTERM
LiveUnsignalled(id) ==
    (IF /\ Registered(id)
        /\ Alive(recorders[id].process)
        /\ ~recorders[id].process.signalled
     THEN 1 ELSE 0)
    + SumOver(orphans, { p \in BagToSet(orphans) :
                           p.cam = id /\ Alive(p) /\ ~p.signalled })

OrphansOf(B, id) == [p \in { q \in BagToSet(B) : q.cam = id } |-> B[p]]

Stored(id) == Find(cameras, id) # NoCam

\* stored with status ONLINE or RECORDING, an address, and a destination root
StoredRecordable(id) ==
    /\ Stored(id)
    /\ Recordable(Find(cameras, id).status)
    /\ Find(cameras, id).streamUrl # << >>
    /\ recordingPath # ""

\* C1: for every camera id, at most one process spawned for it is alive
\* without having been sent a termination signal
C1_AtMostOneLiveProcess == \A id \in CamIds : LiveUnsignalled(id) <= 1

\* C2: a camera that is not stored (deleted) has no process that is alive
\* and was never signalled
C2_DeletedCameraNotRecorded ==
    \A id \in CamIds : ~Stored(id) => LiveUnsignalled(id) = 0

\* C3: a close with code 0 after 10,000 ms or less of uptime schedules no
\* restart
C3_FastCleanExitNoRestart ==
    [][(last'.op = "close" /\ last'.code = 0 /\ last'.uptime <= UPTIME_FLOOR)
          => timers' = timers]_vars

DirtyOrLong(l) == l.code # 0 \/ l.uptime > UPTIME_FLOOR

DirtyClose(id) == last.op = "close" /\ last.cam = id /\ DirtyOrLong(last)

\* the restart of camera id has just been aborted by a failing mkdir or spawn
RestartFailed(id) ==
    /\ last.op = "timer"
    /\ last.cam = id
    /\ (<<"mkdirFailed", id>> \in last.log \/ <<"spawnThrew", id>> \in last.log)

\* C5 as stated: after a close with a non-zero code or after more than 10 s,
\* a camera that stays stored and recordable eventually has a session
C5_RestartEventuallyRegisters ==
    \A id \in CamIds :
       DirtyClose(id) ~> (Registered(id) \/ ~StoredRecordable(id))

\* C5 amended: ... unless creating the folder or spawning the process fails
\* when the restart timer fires
C5_RestartRegistersUnlessStartFails ==
    \A id \in CamIds :
       DirtyClose(id) ~> (Registered(id) \/ ~StoredRecordable(id) \/ RestartFailed(id))

C5_Witness ==
    /\ last.op = "timer"
    /\ StoredRecordable(last.cam)
    /\ <<"spawn", last.cam>> \in last.log
    /\ Registered(last.cam)

\* C6: a restart timer acts on the record stored when it fires: for a camera
\* no longer stored it does nothing, and a process it spawns has the address
\* and folder of the stored record
C6_RestartUsesStoredRecord ==
    [][last'.op = "timer" =>
          LET id  == last'.cam
              cur == Find(cameras, id)
          IN  /\ cur = NoCam =>
                    /\ recorders' = recorders
                    /\ orphans' = orphans
                    /\ last'.log = {}
              /\ (cur # NoCam /\ <<"spawn", id>> \in last'.log) =>
                    /\ recorders'[id].process.url = getStreamUrlWithAuth(cur)
                    /\ recorders'[id].process.dir = CamFolder(recordingPath, cur)]_vars

C6_Witness ==
    /\ last.op = "timer"
    /\ ~Stored(last.cam)
    /\ ~Registered(last.cam)

\* C7: while the destination root is cleared, no session is registered and
\* no unsignalled process runs
C7_ClearedRootHasNoSession ==
    recordingPath = "" =>
        \A id \in CamIds : ~Registered(id) /\ LiveUnsignalled(id) = 0

\* C8: right after the destination root was set to a non-empty path, every
\* registered session writes under it and no unsignalled process is alive
\* under another root
C8_NewRootRestartsEverything ==
    (last.op = "config" /\ recordingPath # "") =>
        /\ \A id \in CamIds :
              Registered(id) => recorders[id].process.dir[1] = recordingPath
        /\ \A p \in BagToSet(orphans) :
              (Alive(p) /\ ~p.signalled) => p.dir[1] = recordingPath

SameAddressAndStatus(old, new, id) ==
    /\ Find(old, id) # NoCam
    /\ Find(new, id) # NoCam
    /\ Find(old, id).streamUrl = Find(new, id).streamUrl
    /\ Find(old, id).status = Find(new, id).status

\* C9: an upsert calls startRecording exactly for the cameras of the new list
\* that are new or differ in address or status; a camera in both lists with
\* the same address and status keeps its entry and processes; a camera
\* absent from the new list is stopped
C9_UpsertDiff ==
    [][last'.op = "upsert" =>
          \A id \in CamIds :
             /\ <<"start", id>> \in last'.log
                   <=> /\ Find(cameras', id) # NoCam
                       /\ ~SameAddressAndStatus(cameras, cameras', id)
             /\ SameAddressAndStatus(cameras, cameras', id) =>
                   /\ recorders'[id] = recorders[id]
                   /\ OrphansOf(orphans', id) = OrphansOf(orphans, id)
             /\ (Find(cameras, id) # NoCam /\ Find(cameras', id) = NoCam) =>
                   /\ <<"stop", id>> \in last'.log
                   /\ ~Registered(id)']_vars

C9_Witness ==
    /\ last.op = "upsert"
    /\ <<"start", "c1">> \in last.log
    /\ <<"spawn", "c1">> \in last.log
    /\ <<"start", "c2">> \notin last.log
    /\ Stored("c2")
    /\ Registered("c2")

\* C10: when ffmpeg is installed, the boot sweep calls startRecording for
\* every stored camera, and registers a session for each that is recordable
\* and whose folder and spawn do not fail
C10_BootSweepStartsEveryCamera ==
    [][(boot = "settling" /\ boot' = "up" /\ ffmpegPresent) =>
          \A id \in IdsOf(cameras) :
             /\ <<"start", id>> \in last'.log
             /\ (/\ StoredRecordable(id)
                 /\ <<"mkdirFailed", id>> \notin last'.log
                 /\ <<"spawnThrew", id>> \notin last'.log) => Registered(id)']_vars

\* the start of camera bad failed in the handler that ran last: its folder
\* could not be created, or its spawn threw or failed
StartFailed(bad) ==
    \/ <<"mkdirFailed", bad>> \in last.log
    \/ <<"spawnThrew", bad>> \in last.log
    \/ /\ <<"spawn", bad>> \in last.log
       /\ Registered(bad)
       /\ recorders[bad].process.st = "failed"

Started(id) ==
    /\ <<"start", id>> \in last.log
    /\ StoredRecordable(id) => <<"spawn", id>> \in last.log /\ Registered(id)

\* C11: when the start of one camera fails in a sweep or an upsert, the
\* handler still completes and handles every other camera: a sweep starts
\* each stored one, an upsert starts each new or changed one and stops each
\* removed one
C11_FailureIsolated ==
    [][\A bad \in CamIds :
          (last'.op \in {"sweep", "config", "upsert"} /\ StartFailed(bad)') =>
             \A id \in CamIds \ {bad} :
                /\ (last'.op # "upsert" /\ Stored(id)') => Started(id)'
                /\ (/\ last'.op = "upsert"
                    /\ Stored(id)'
                    /\ ~SameAddressAndStatus(cameras, cameras', id)) => Started(id)'
                /\ (last'.op = "upsert" /\ Stored(id) /\ ~Stored(id)') =>
                      <<"stop", id>> \in last'.log /\ ~Registered(id)']_vars

C11_Witness ==
    /\ last.op = "sweep"
    /\ <<"mkdirFailed", "c1">> \in last.log
    /\ <<"spawn", "c2">> \in last.log
    /\ Registered("c2")

\* C12: the sessions registered for two different cameras never have the
\* same output folder
C12_FoldersDisjoint ==
    \A a, b \in CamIds :
       (a # b /\ Registered(a) /\ Registered(b)) =>
           recorders[a].process.dir # recorders[b].process.dir
\* tier 1 of /api/proxy is under way
InTier1 == proxy.stage \in {"fetch", "body"}

\* a step in which tier 1 ends without having delivered
Tier1Fails ==
    /\ InTier1
    /\ proxy'.stage \notin {"fetch", "body"}
    /\ proxy'.upstream.body = ""

\* C13 as stated: once the direct fetch has returned a success response,
\* tier 2 is never invoked and the caller gets that response's bytes and type
C13_SuccessNeverFallsBack ==
    [][proxy.stage = "body" =>
          /\ proxy'.spawns = 0
          /\ proxy'.stage = "done"
          /\ proxy'.res = [status |-> 200,
                           type |-> IF proxy.upstream.type = "" THEN "image/jpeg"
                                    ELSE proxy.upstream.type,
                           body |-> proxy'.upstream.body]]_vars

\* C13 amended: when the body of the success response has been read to its
\* end, the caller gets exactly its bytes with its declared content type
\* (image/jpeg when none is declared) and tier 2 is not invoked
C13_SuccessBodyReturned ==
    [][(proxy.stage = "body" /\ proxy'.upstream.body # "") =>
          /\ proxy'.spawns = 0
          /\ proxy'.stage = "done"
          /\ proxy'.res = [status |-> 200,
                           type |-> IF proxy.upstream.type = "" THEN "image/jpeg"
                                    ELSE proxy.upstream.type,
                           body |-> proxy'.upstream.body]]_vars

C13_Witness ==
    /\ proxy.stage = "done"
    /\ proxy.upstream.body = "frame2"
    /\ proxy.upstream.type = "image/png"
    /\ proxy.res.type = "image/png"
    /\ proxy.res.body = "frame2"

BothSupplied == proxy.username # "" /\ proxy.password # ""

C15_NoFrameIsAnError ==
    /\ proxy.spawns <= 1
    /\ (proxy.stage = "done" /\ proxy.res.body \notin Bodies) =>
           proxy.res.status >= 400

\* C16: as long as tier 1 is under way, from the call of fetch to the end
\* of the response body, the 3 s abort timer is armed
C16_Tier1UnderTimer == InTier1 => proxy.timer = "armed"
\* the address has a user:pass@ group in its authority, the part before the
\* first "/" after the scheme
EmbedsCredentials(url) ==
    \E i \in 1..Len(url) :
       url[i] = "@" /\ \A j \in 1..(i - 1) : url[j] # "/"

\* C17: the resolver returns null for a camera without address; the address
\* with user:pass@ inserted after rtsp:// when it is an rtsp address without
\* embedded credentials and username and password are both set; the address
\* as it is in every other case
C17_Resolve ==
    call.fn = "resolve" =>
        LET c   == call.camera
            url == c.streamUrl
        IN  IF url = << >> THEN call.url = Null
            ELSE IF /\ StartsWithRtsp(url)
                    /\ ~EmbedsCredentials(url)
                    /\ c.username # << >>
                    /\ c.password # << >>
                 THEN call.url = <<"rtsp://">> \o c.username \o <<":">>
                                    \o c.password \o <<"@">> \o Tail(url)
                 ELSE call.url = url

\* lowercase letters, digits and the underscore, among the characters of
\* the model
TokenChars == {"f", "g", "1", "2", "_"}

IsToken(str) == \A i \in 1..Len(str) : str[i] \in TokenChars

\* C18: the token of a name has only lowercase letters, digits and
\* underscores, is its own token, and is the same whether startRecording
\* or the playback route derives it
C18_FolderToken ==
    /\ call.fn \in {"sanitize", "playback"} =>
          /\ IsToken(call.token) /\ IsToken(call.playToken)
          /\ sanitize(call.token) = call.token
          /\ sanitize(call.playToken) = call.playToken
    /\ (call.token # << >> /\ call.playToken # << >>) =>
          call.token = call.playToken
    /\ call.fn = "sanitize" => Len(call.token) = Len(call.name)

C18_Witness ==
    /\ call.fn = "playback"
    /\ call.name = <<"F", " ", "!">>
    /\ call.token = <<"f", "_", "_">>
    /\ call.playToken = <<"f", "_", "_">>
\* C19: the thumbnail of a segment is written by at most one extraction
\* run, and no two runs for the same segment are under way together
C19_ThumbnailMadeOnce ==
    \A s \in Segments : thumbs[s].made <= 1 /\ thumbs[s].running <= 1
\* C20: when the close or error callback of a process without registry
\* entry runs (the process leaves the unregistered ones), the registry
\* stays as it is
C20_StaleCallbackKeepsRegistry ==
    [][(last'.op \in {"close", "error"} /\ orphans' # orphans)
          => recorders' = recorders]_vars
RestartOf(id) == [cam |-> id, delay |-> RESTART_DELAY]

\* C21: at most one restart timer is pending for a camera
C21_OneRestartPending ==
    \A id \in CamIds : CopiesIn(RestartOf(id), timers) <= 1

\* C22: a start for a camera that has a registry entry first stops that
\* session: stopRecording runs for it in the same handler, whether or not a
\* new process is spawned afterwards
C22_StartStopsOldSession ==
    [][\A id \in CamIds :
          (<<"start", id>> \in last'.log /\ Registered(id))
             => /\ <<"stop", id>> \in last'.log
                /\ Kill(recorders[id].process) \in DOMAIN OrphansOf(orphans', id)]_vars

\* C23: a stop removes the registry entry in the step that signals the
\* process: a live process is signalled and left to exit unregistered, a
\* dead one, to which the signal cannot be delivered, is dropped as it is,
\* and the call completes in both cases
C23_StopRemovesEntryAtOnce ==
    [][\A id \in CamIds :
          (StopCallOf(id) /\ Registered(id)) =>
             /\ ~Registered(id)'
             /\ CopiesIn(Kill(recorders[id].process), orphans')
                   = CopiesIn(Kill(recorders[id].process), orphans) + 1
             /\ Alive(recorders[id].process)
                   => Kill(recorders[id].process).signalled]_vars

C23_Witness ==
    /\ last.op = "stopCall"
    /\ ~Registered(last.cam)
    /\ \E p \in BagToSet(orphans) :
          p.cam = last.cam /\ p.st = "exited" /\ ~p.signalled

\* the start of this camera is a no-op: the destination root is unset, the
\* status is neither ONLINE nor RECORDING, or the address resolves to null
NoOpStart(camera) ==
    \/ recordingPath = ""
    \/ camera.status \notin {"ONLINE", "RECORDING"}
    \/ getStreamUrlWithAuth(camera) = Null

\* C24: a start that is a no-op spawns no process, creates no registry
\* entry and touches no folder
C24_NoOpStartCreatesNothing ==
    [][\A camera \in StartCams, kind \in {"none"} \cup FaultKinds :
          (StartCallOf(camera, kind) /\ NoOpStart(camera)) =>
             /\ <<"spawn", camera.id>> \notin last'.log
             /\ <<"mkdir", camera.id>> \notin last'.log
             /\ <<"mkdirFailed", camera.id>> \notin last'.log
             /\ recorders'[camera.id] \in {NoEntry, recorders[camera.id]}
             /\ \A p \in BagToSet(orphans') :
                   CopiesIn(p, orphans') > CopiesIn(p, orphans)
                      => p = Kill(recorders[camera.id].process)]_vars

C24_Witness ==
    /\ last.op = "startCall"
    /\ recordingPath # ""
    /\ IS_FFMPEG_INSTALLED
    /\ last.log = {<<"start", last.cam>>}
    /\ ~Registered(last.cam)

\* C25: a close of a process that has run for less than the 10,000 ms floor
\* schedules no restart, whatever the exit code
C25_EarlyExitNoRestart ==
    [][(last'.op = "close" /\ last'.uptime < UPTIME_FLOOR)
          => CopiesIn(RestartOf(last'.cam), timers')
                <= CopiesIn(RestartOf(last'.cam), timers)]_vars

\* the handler that ran last did not act on camera id: it was not the
\* handler of a process or timer of id and it called neither startRecording
\* nor stopRecording for id
Untouched(id) ==
    /\ last.cam # id
    /\ <<"start", id>> \notin last.log
    /\ <<"stop", id>> \notin last.log

\* C26: a handler leaves as they are the registry entry and the processes
\* of every camera it does not act on
C26_OtherCamerasUnchanged ==
    [][\A id \in CamIds :
          Untouched(id)' =>
             /\ recorders'[id] = recorders[id]
             /\ OrphansOf(orphans', id) = OrphansOf(orphans, id)]_vars

C26_Witness ==
    /\ last.op = "close"
    /\ last.cam = "c1"
    /\ Registered("c2")
    /\ Alive(recorders["c2"].process)

\* C27: when the folder of a camera cannot be created, no process is
\* spawned for it, it has no registry entry afterwards, and no timer is
\* armed
C27_FolderFailureAborts ==
    [][\A id \in CamIds :
          <<"mkdirFailed", id>> \in last'.log =>
             /\ <<"spawn", id>> \notin last'.log
             /\ ~Registered(id)'
             /\ \A other \in CamIds :
                   CopiesIn(RestartOf(other), timers')
                      <= CopiesIn(RestartOf(other), timers)]_vars

C27_Witness ==
    /\ last.op = "upsert"
    /\ <<"mkdirFailed", "c1">> \in last.log
    /\ <<"stop", "c1">> \in last.log
    /\ ~Registered("c1")

\* C28: a restart timer that fires while a running session is registered
\* for its camera neither stops nor replaces that session
C28_TimerSparesRunningSession ==
    [][(/\ last'.op = "timer"
        /\ Registered(last'.cam)
        /\ Alive(recorders[last'.cam].process))
          => /\ <<"stop", last'.cam>> \notin last'.log
             /\ <<"spawn", last'.cam>> \notin last'.log
             /\ recorders'[last'.cam] = recorders[last'.cam]]_vars

\* C29: the process of a registered session of a stored camera was spawned
\* with the address, credentials included, and the folder token of the
\* record stored now
C29_SessionMatchesStoredRecord ==
    \A id \in CamIds :
       (Registered(id) /\ Stored(id)) =>
           /\ recorders[id].process.url = getStreamUrlWithAuth(Find(cameras, id))
           /\ recorders[id].process.dir[2] = sanitize(Find(cameras, id).name)
\* the stored list shows what operation op asked for
Reflects(list, op) ==
    IF op.kind = "delete" THEN Find(list, op.cam.id) = NoCam
    ELSE Find(list, op.cam.id) = op.cam

\* C30: a client operation acts on no session but its own camera's, and
\* once both operations are done the stored list shows both changes
C30_ConcurrentClientOpsBothApply ==
    [][last'.op = "clientPost" =>
          /\ \A id \in CamIds \ {last'.cam} :
                /\ <<"stop", id>> \notin last'.log
                /\ <<"start", id>> \notin last'.log
          /\ (\A o \in Ops : clients'[o].pc = "done")
                => \A o \in Ops : Reflects(cameras', clients'[o])]_vars
====
